---- MODULE Spec2Model ----
(***************************************************************************)
(* Model of main.py: the month-by-month projection engine (buy, rent,      *)
(* rent_to_buy, buy_and_rent) and the update_data callback that re-runs it *)
(* on every slider change.                                                 *)
(*                                                                         *)
(* Numbers.  Money is an integer amount of rand.  A rate or a factor is a  *)
(* fixed-point number with denominator Scale: the yearly rate 0.09 is      *)
(* 0.09 * Scale, the factor 1.08 is Scale + 0.08 * Scale.  Products and     *)
(* quotients round towards minus infinity, the model's stand-in for the    *)
(* rounding of the float64 arithmetic of the source.                       *)
(*                                                                         *)
(* Arrays.  A numpy array is a sequence; element m of the source is        *)
(* element m + 1 of the sequence.  The "month" arrays live in the heap,    *)
(* because they are the arrays the source shares between bundles and       *)
(* updates in place; a bundle holds the heap index of its month array.     *)
(***************************************************************************)
EXTENDS Integers, Sequences, FiniteSets, TLC

Scale == 12 * 1000

\* x * r for a rate r (a fraction with denominator Scale)
frac(x, r) == (x * r) \div Scale

\* x * f for a factor f (Scale stands for 1.0); x * f = x + x * (f - 1)
fmul(x, f) == x + frac(x, f - Scale)

\* f ** n for a factor f and a natural number n
RECURSIVE pow(_, _)
pow(f, n) == IF n = 0 THEN Scale ELSE fmul(pow(f, n - 1), f)

\* a ** (1/12): the largest factor whose twelfth power does not exceed a
RECURSIVE root12_from(_, _)
root12_from(f, a) == IF pow(f + 1, 12) <= a THEN root12_from(f + 1, a) ELSE f

root12(a) == root12_from(IF a < Scale THEN a ELSE Scale, a)

zeros(n) == [i \in 1..n |-> 0]

arange(n) == [i \in 1..n |-> i - 1]

\* a[m] and a[m] = v of the source (0-based)
At(a, m) == a[m + 1]

Put(a, m, v) == [a EXCEPT ![m + 1] = v]

(***************************************************************************)
(* Tax and fee calculators                                                 *)
(***************************************************************************)
calc_transfer_duty_mut_const(purchase_price) ==
    IF purchase_price <= 1000000 THEN (purchase_price * 0) \div 100
    ELSE IF purchase_price <= 1375000 THEN ((purchase_price - 1000000) * 3) \div 100
    ELSE IF purchase_price <= 1925000 THEN ((purchase_price - 1375000) * 6) \div 100 + 11250
    ELSE IF purchase_price <= 2475000 THEN ((purchase_price - 1925000) * 8) \div 100 + 44250
    ELSE IF purchase_price <= 11000000 THEN ((purchase_price - 2475000) * 11) \div 100 + 88250
    ELSE ((purchase_price - 11000000) * 13) \div 100 + 1025000

calc_transfer_duty(purchase_price) ==
    IF purchase_price <= 1000000 THEN (purchase_price * 0) \div 100
    ELSE IF purchase_price <= 1375000 THEN ((purchase_price - 1000000) * 3) \div 100
    ELSE IF purchase_price <= 1925000 THEN ((purchase_price - 1375000) * 6) \div 100 + 11250
    ELSE IF purchase_price <= 2475000 THEN ((purchase_price - 1925000) * 8) \div 100 + 44250
    ELSE IF purchase_price <= 11000000 THEN ((purchase_price - 2475000) * 11) \div 100 + 88250
    ELSE ((purchase_price - 11000000) * 13) \div 100 + 1026000

calc_bond_cost(bond) ==
    LET deeds_office_fees == 1020
        petty_fees == 1200
    IN  ((bond - 100000) * 1771) \div 100000 + 5750 + deeds_office_fees + petty_fees

calc_bond_payment(bond, interst_rate, periods) ==
    (interst_rate * bond) \div (Scale - (Scale * Scale) \div pow(Scale + interst_rate, periods))

(***************************************************************************)
(* buy: the monthly financial state of the property buying case            *)
(***************************************************************************)
\* month 0 of bond_outstanding
bond_outstanding0_mut_no_deposit(price, deposit) == price

bond_outstanding0(price, deposit) == price - deposit

\* month 0 of nett
nett0(housevalue_0, expenses_0, bond_outstanding_0) ==
    housevalue_0 - expenses_0 - bond_outstanding_0

\* one pass of the loop "for month in range(1, period)", from month on;
\* d holds the arrays, bond_accum included
RECURSIVE buy_loop(_, _, _, _, _, _, _)
buy_loop(d, month, period, interest_rate, growth, inflation, bond_payment) ==
    IF month >= period THEN d
    ELSE
    LET housevalue_m == fmul(At(d.housevalue, month - 1), root12(Scale + growth))
        growth_accum_m == At(d.growth_accum, month - 1)
                              + (housevalue_m - At(d.housevalue, month - 1))
        expenses_m == fmul(At(d.expenses, month - 1), root12(Scale + inflation))
        bond_m == bond_payment
        bond_interest_m == frac(At(d.bond_outstanding, month - 1),
                                pow(Scale + interest_rate \div 12, 12 \div 12) - Scale)
        bond_outstanding_m == At(d.bond_outstanding, month - 1) + bond_interest_m
                                  - bond_payment
        expenses_accum_m == At(d.expenses_accum, month - 1) + expenses_m
        bond_accum_m == At(d.bond_accum, month - 1) + bond_m
        bond_interest_accum_m == At(d.bond_interest_accum, month - 1) + bond_interest_m
        nett_m == housevalue_m - bond_outstanding_m
    IN  buy_loop([d EXCEPT
                    !.housevalue = Put(@, month, housevalue_m),
                    !.growth_accum = Put(@, month, growth_accum_m),
                    !.expenses = Put(@, month, expenses_m),
                    !.bond = Put(@, month, bond_m),
                    !.bond_interest = Put(@, month, bond_interest_m),
                    !.bond_outstanding = Put(@, month, bond_outstanding_m),
                    !.expenses_accum = Put(@, month, expenses_accum_m),
                    !.bond_accum = Put(@, month, bond_accum_m),
                    !.bond_interest_accum = Put(@, month, bond_interest_accum_m),
                    !.nett = Put(@, month, nett_m)],
                 month + 1, period, interest_rate, growth, inflation, bond_payment)

\* the returned dictionary; "month" is the array itself, the caller of the
\* model places it in the heap
buy(price, deposit, interest_rate, period, growth, monthly_expenses, inflation) ==
    LET transfer_duty == calc_transfer_duty(price - deposit)
        bond_cost == calc_bond_cost(price - deposit)
        monthly_interest_rate == pow(Scale + interest_rate \div 12, 12 \div 12) - Scale
        bond_payment == calc_bond_payment(price - deposit, monthly_interest_rate, period)
        d0 == [housevalue |-> Put(zeros(period), 0, price),
               growth_accum |-> zeros(period),
               expenses |-> Put(zeros(period), 0, monthly_expenses),
               expenses_accum |-> Put(zeros(period), 0, monthly_expenses),
               bond |-> Put(zeros(period), 0, transfer_duty + bond_cost + deposit),
               bond_outstanding |-> Put(zeros(period), 0, bond_outstanding0(price, deposit)),
               bond_interest |-> Put(zeros(period), 0, 0),
               bond_interest_accum |-> Put(zeros(period), 0, 0),
               bond_accum |-> Put(zeros(period), 0, transfer_duty + bond_cost + deposit),
               nett |-> Put(zeros(period), 0,
                            nett0(price, monthly_expenses, price - deposit))]
        d == buy_loop(d0, 1, period, interest_rate, growth, inflation, bond_payment)
    IN  [month |-> arange(period),
         housevalue |-> d.housevalue,
         growth_accum |-> d.growth_accum,
         expenses |-> d.expenses,
         expenses_accum |-> d.expenses_accum,
         bond |-> d.bond,
         bond_interest |-> d.bond_interest,
         bond_interest_accum |-> d.bond_interest_accum,
         bond_outstanding |-> d.bond_outstanding,
         nett |-> d.nett]

(***************************************************************************)
(* rent: the monthly financial state of the renting case                   *)
(***************************************************************************)
\* the yearly step "if month%12 == 0: rent[month] += rent[month]*rent_increase"
yearly_step_mut_late(month, value, rent_increase) ==
    IF month % 12 = 1 /\ month > 1 THEN value + frac(value, rent_increase) ELSE value

yearly_step(month, value, rent_increase) ==
    IF month % 12 = 0 THEN value + frac(value, rent_increase) ELSE value

RECURSIVE rent_loop(_, _, _, _, _, _)
rent_loop(d, month, period, rent_increase, savings_interest, buy_data) ==
    IF month >= period THEN d
    ELSE
    LET rent_carried == At(d.rent, month - 1)
        rent_accum_m == At(d.rent_accum, month - 1) + rent_carried
        rent_m == yearly_step(month, rent_carried, rent_increase)
        interest_m == frac(At(d.savings, month - 1),
                           pow(Scale + savings_interest \div 12, 12 \div 12) - Scale)
        interest_accum_m == At(d.interest_accum, month - 1) + interest_m
        savings_m == At(d.savings, month - 1) + interest_m
                         + (At(buy_data.bond, month) + At(buy_data.expenses, month))
                         - rent_m
    IN  rent_loop([d EXCEPT
                     !.rent = Put(@, month, rent_m),
                     !.rent_accum = Put(@, month, rent_accum_m),
                     !.interest = Put(@, month, interest_m),
                     !.interest_accum = Put(@, month, interest_accum_m),
                     !.savings = Put(@, month, savings_m)],
                  month + 1, period, rent_increase, savings_interest, buy_data)

\* buy_data is the bundle as the callee sees it (month array read through the
\* heap); the result has no "month" field: the returned dictionary holds
\* buy_data["month"] itself, which the calling action records
rent(start_rent, rent_increase, savings_interest, buy_data) ==
    LET period == Len(buy_data.month)
        d0 == [savings |-> Put(zeros(period), 0,
                               At(buy_data.expenses, 0) + At(buy_data.bond, 0) - start_rent),
               rent |-> Put(zeros(period), 0, start_rent),
               rent_accum |-> Put(zeros(period), 0, start_rent),
               interest |-> Put(zeros(period), 0, 0),
               interest_accum |-> zeros(period)]
    IN  rent_loop(d0, 1, period, rent_increase, savings_interest, buy_data)

(***************************************************************************)
(* buy_and_rent: renting while buying a to-rent property                   *)
(***************************************************************************)
RECURSIVE buy_and_rent_loop(_, _, _, _, _, _, _)
buy_and_rent_loop(d, month, period, rent_increase, savings_interest, monthly_investment, buy_data) ==
    IF month >= period THEN d
    ELSE
    LET rent_in_carried == At(d.rent_in, month - 1)
        rent_out_carried == At(d.rent_out, month - 1)
        rent_out_accum_m == At(d.rent_out_accum, month - 1) + rent_out_carried
        rent_in_m == yearly_step(month, rent_in_carried, rent_increase)
        rent_out_m == yearly_step(month, rent_out_carried, rent_increase)
        interest_m == frac(At(d.savings, month - 1),
                           pow(Scale + savings_interest \div 12, 12 \div 12) - Scale)
        interest_accum_m == At(d.interest_accum, month - 1) + interest_m
        savings_m == At(d.savings, month - 1) + interest_m
                         + monthly_investment
                         - (At(buy_data.bond, month) + At(buy_data.expenses, month))
                         + rent_in_m
                         - rent_out_m
        nett_m == At(buy_data.nett, month) + savings_m
    IN  buy_and_rent_loop([d EXCEPT
                             !.rent_in = Put(@, month, rent_in_m),
                             !.rent_out = Put(@, month, rent_out_m),
                             !.rent_out_accum = Put(@, month, rent_out_accum_m),
                             !.interest = Put(@, month, interest_m),
                             !.interest_accum = Put(@, month, interest_accum_m),
                             !.savings = Put(@, month, savings_m),
                             !.nett = Put(@, month, nett_m)],
                          month + 1, period, rent_increase, savings_interest,
                          monthly_investment, buy_data)

\* as for rent, the result has no "month" field
buy_and_rent(buy_data, rent_expense, rent_income, rent_increase, savings_interest, monthly_investment) ==
    LET period == Len(buy_data.month)
        d0 == [savings |-> Put(zeros(period), 0, rent_income - rent_expense),
               rent_in |-> Put(zeros(period), 0, rent_income),
               rent_in_accum |-> Put(zeros(period), 0, rent_income),
               rent_out |-> Put(zeros(period), 0, rent_expense),
               rent_out_accum |-> Put(zeros(period), 0, rent_expense),
               interest |-> Put(zeros(period), 0, 0),
               interest_accum |-> zeros(period),
               nett |-> zeros(period)]
    IN  buy_and_rent_loop(d0, 1, period, rent_increase, savings_interest,
                          monthly_investment, buy_data)

(***************************************************************************)
(* State                                                                   *)
(***************************************************************************)
VARIABLES
    slider,             \* the value of every slider widget
    pc,                 \* where the update_data callback stands; "idle" between callbacks
    heap,               \* the month arrays allocated by the running callback
    buy_data,           \* locals of update_data: the four bundles
    rent_data,
    rent_to_buy_data,
    buy_and_rent_data,
    r2b,                \* locals of rent_to_buy while its deposit search runs
    source,             \* the .data of the five ColumnDataSource objects
    div,                \* the text of the four Div objects: <<>> for "", else
                        \* <<label, figure in tenths>>
    purchase_price,     \* argument and result of a direct call of calc_transfer_duty
    duty

vars == <<slider, pc, heap, buy_data, rent_data, rent_to_buy_data, buy_and_rent_data,
          r2b, source, div, purchase_price, duty>>

engine_vars == <<slider, pc, heap, buy_data, rent_data, rent_to_buy_data,
                 buy_and_rent_data, r2b, source, div>>

duty_vars == <<purchase_price, duty>>

\* a local that is not bound
None == [none |-> TRUE]

\* the bundle d as a reader sees it: the month array read through the heap
View(d) == [d EXCEPT !.month = heap[d.month]]

(***************************************************************************)
(* The sliders.  Values are drawn from each slider's start..end range, on  *)
(* its step grid; yearly rates are multiples of 1/Scale.                   *)
(***************************************************************************)
LongPeriod == 13

SliderValues ==
    [deposit |-> {0, 50000},
     growth |-> {0, (8 * Scale) \div 100},
     period |-> {12, LongPeriod},
     buy_delay |-> {3, 12}]

\* every slider at its initial value, except: houseprice lowered to 1100000,
\* rent at its start, and period and buy_delay lowered to 12, where
\* rent_to_buy fails, so that nothing has been published yet
InitSlider ==
    [houseprice |-> 1100000,
     deposit |-> 50000,
     interest |-> (9 * Scale) \div 100,
     growth |-> (8 * Scale) \div 100,
     inflation |-> (6 * Scale) \div 100,
     period |-> 12,
     levies |-> 300,
     tax |-> 1100,
     insurance |-> 1100,
     utilities |-> 500,
     maintenance |-> 20000,
     rent |-> 4000,
     rent_increase |-> (10 * Scale) \div 100,
     savings_interest |-> (35 * Scale) \div 1000,
     buy_delay |-> 12,
     monthly_investment |-> 5000,
     rent_income |-> 2000]

\* the "data" dictionaries of empty lists the sources are built with
EmptySource ==
    [buy |-> [month |-> <<>>, housevalue |-> <<>>, growth_accum |-> <<>>,
              expenses |-> <<>>, expenses_accum |-> <<>>, bond |-> <<>>,
              bond_interest |-> <<>>, bond_interest_accum |-> <<>>,
              bond_outstanding |-> <<>>, nett |-> <<>>],
     rent_to_buy |-> [month |-> <<>>, housevalue |-> <<>>, growth_accum |-> <<>>,
              expenses |-> <<>>, expenses_accum |-> <<>>, bond |-> <<>>,
              bond_interest |-> <<>>, bond_interest_accum |-> <<>>,
              bond_outstanding |-> <<>>, nett |-> <<>>],
     rent |-> [month |-> <<>>, savings |-> <<>>, rent |-> <<>>, rent_accum |-> <<>>,
               interest |-> <<>>, interest_accum |-> <<>>],
     nett |-> [month |-> <<>>, buy_nett |-> <<>>, rent_nett |-> <<>>,
               buy_and_rent_nett |-> <<>>],
     buy_and_rent |-> [month |-> <<>>, savings |-> <<>>, rent_in |-> <<>>,
               rent_in_accum |-> <<>>, rent_out |-> <<>>, rent_out_accum |-> <<>>,
               interest |-> <<>>, interest_accum |-> <<>>, nett |-> <<>>]]

Init ==
    /\ slider = InitSlider
    /\ pc = "idle"
    /\ heap = <<>>
    /\ buy_data = None
    /\ rent_data = None
    /\ rent_to_buy_data = None
    /\ buy_and_rent_data = None
    /\ r2b = None
    /\ source = EmptySource
    /\ div = [buy |-> <<>>, rent |-> <<>>, r2b |-> <<>>, rab |-> <<>>]
    /\ purchase_price = 0
    /\ duty = 0

(***************************************************************************)
(* update_data, the callback of every slider, step by step                 *)
(***************************************************************************)
\* a slider moves: its value changes and update_data is entered
on_change(w, v) ==
    /\ pc = "idle"
    /\ v # slider[w]
    /\ slider' = [slider EXCEPT ![w] = v]
    /\ pc' = "buy"
    /\ UNCHANGED <<heap, buy_data, rent_data, rent_to_buy_data, buy_and_rent_data,
                   r2b, source, div, duty_vars>>

\* expenses = levies+tax+insurance+water+maintenance, maintenance = slider/12
expenses_of(sl) ==
    sl.levies + sl.tax + sl.insurance + sl.utilities + sl.maintenance \div 12

\* buy_data = buy(houseprice, deposit, interest, period, growth, expenses, inflation)
update_buy ==
    /\ pc = "buy"
    /\ LET b == buy(slider.houseprice, slider.deposit, slider.interest, slider.period,
                    slider.growth, expenses_of(slider), slider.inflation)
       IN  /\ heap' = <<b.month>>
           /\ buy_data' = [b EXCEPT !.month = 1]
    /\ pc' = "rent"
    /\ UNCHANGED <<slider, rent_data, rent_to_buy_data, buy_and_rent_data, r2b,
                   source, div, duty_vars>>

\* rent_data = rent(rent_start, rent_increase, savings_interest, buy_data);
\* the returned "month" is buy_data["month"], the same array
update_rent ==
    /\ pc = "rent"
    /\ LET d == rent(slider.rent, slider.rent_increase, slider.savings_interest,
                     View(buy_data))
       IN  rent_data' = [month |-> buy_data.month, savings |-> d.savings,
                         rent |-> d.rent, rent_accum |-> d.rent_accum,
                         interest |-> d.interest, interest_accum |-> d.interest_accum]
    /\ pc' = "rent_to_buy"
    /\ UNCHANGED <<slider, heap, buy_data, rent_to_buy_data, buy_and_rent_data, r2b,
                   source, div, duty_vars>>

\* period = len(buy_data["month"]) - delay
remaining_period_mut_late(months, delay) == Len(months) - delay + 1

remaining_period(months, delay) == Len(months) - delay

\* rent_to_buy is entered and reads the state at the delay; the deposit search
\* starts from deposit = transfer_duty = bond_cost = 0
rent_to_buy_enter ==
    /\ pc = "rent_to_buy"
    /\ slider.buy_delay < Len(View(buy_data).housevalue)
    /\ r2b' = [price |-> At(View(buy_data).housevalue, slider.buy_delay),
               savings |-> At(View(rent_data).savings, slider.buy_delay),
               period |-> remaining_period(View(buy_data).month, slider.buy_delay),
               monthly_expenses |-> At(View(buy_data).expenses, slider.buy_delay),
               deposit |-> 0,
               transfer_duty |-> 0,
               bond_cost |-> 0]
    /\ pc' = "search"
    /\ UNCHANGED <<slider, heap, buy_data, rent_data, rent_to_buy_data,
                   buy_and_rent_data, source, div, duty_vars>>

\* as rent_to_buy_index_error, had update_data assigned each bundle to its
\* plot source as soon as the projector returned
rent_to_buy_index_error_mut_publishes ==
    /\ pc = "rent_to_buy"
    /\ ~ (slider.buy_delay < Len(View(buy_data).housevalue))
    /\ pc' = "idle"
    /\ heap' = <<>>
    /\ buy_data' = None
    /\ rent_data' = None
    /\ source' = [source EXCEPT !.buy = View(buy_data), !.rent = View(rent_data)]
    /\ UNCHANGED <<slider, rent_to_buy_data, buy_and_rent_data, r2b, div, duty_vars>>

\* buy_data["housevalue"][delay] is out of range: the IndexError leaves
\* rent_to_buy and update_data, whose remaining statements do not run
rent_to_buy_index_error ==
    /\ pc = "rent_to_buy"
    /\ ~ (slider.buy_delay < Len(View(buy_data).housevalue))
    /\ pc' = "idle"
    /\ heap' = <<>>
    /\ buy_data' = None
    /\ rent_data' = None
    /\ UNCHANGED <<slider, rent_to_buy_data, buy_and_rent_data, r2b, source, div,
                   duty_vars>>

\* the test of "while deposit + transfer_duty + bond_cost < savings"
search_goes_on(l) == l.deposit + l.transfer_duty + l.bond_cost < l.savings

\* one pass of the body of the while loop
search_step ==
    /\ pc = "search"
    /\ search_goes_on(r2b)
    /\ r2b' = [r2b EXCEPT !.transfer_duty = calc_transfer_duty(r2b.price - r2b.deposit),
                          !.bond_cost = calc_bond_cost(r2b.price - r2b.deposit),
                          !.deposit = r2b.deposit + 1000]
    /\ UNCHANGED <<slider, pc, heap, buy_data, rent_data, rent_to_buy_data,
                   buy_and_rent_data, source, div, duty_vars>>

\* the array that 'rent_to_buy_data["month"] += delay' updates in place
shifted_month_mut_buy_data(rent_to_buy_month, buy_month) == buy_month

shifted_month(rent_to_buy_month, buy_month) == rent_to_buy_month

\* the loop has ended: buy with the larger deposit and the shorter period,
\* shift the months, return to update_data
rent_to_buy_return ==
    /\ pc = "search"
    /\ ~ search_goes_on(r2b)
    /\ LET b == buy(r2b.price, r2b.deposit, slider.interest, r2b.period, slider.growth,
                    r2b.monthly_expenses, slider.inflation)
           allocated == Append(heap, b.month)
           id == Len(allocated)
           target == shifted_month(id, buy_data.month)
       IN  /\ heap' = [allocated EXCEPT ![target] =
                          [i \in DOMAIN @ |-> @[i] + slider.buy_delay]]
           /\ rent_to_buy_data' = [b EXCEPT !.month = id]
    /\ pc' = "buy_and_rent"
    /\ UNCHANGED <<slider, buy_data, rent_data, buy_and_rent_data, r2b, source, div,
                   duty_vars>>

\* buy_and_rent_data = buy_and_rent(buy_data, rent_start, rent_income, ...)
update_buy_and_rent ==
    /\ pc = "buy_and_rent"
    /\ LET d == buy_and_rent(View(buy_data), slider.rent, slider.rent_income,
                             slider.rent_increase, slider.savings_interest,
                             slider.monthly_investment)
       IN  buy_and_rent_data' =
               [month |-> buy_data.month, savings |-> d.savings,
                rent_in |-> d.rent_in, rent_in_accum |-> d.rent_in_accum,
                rent_out |-> d.rent_out, rent_out_accum |-> d.rent_out_accum,
                interest |-> d.interest, interest_accum |-> d.interest_accum,
                nett |-> d.nett]
    /\ pc' = "publish"
    /\ UNCHANGED <<slider, heap, buy_data, rent_data, rent_to_buy_data, r2b,
                   source, div, duty_vars>>

\* a[-1]
Last(a) == a[Len(a)]

\* nett[-1]/month[-1] as the ":.1f" format shows it, in tenths (rounded down)
monthly_roi(nett, month) == (10 * Last(nett)) \div Last(month)

\* the ROI figures, the expense and income breakdowns, the plot sources and
\* the text items: the rest of update_data
update_publish ==
    /\ pc = "publish"
    /\ LET b == View(buy_data)
           r == View(rent_data)
           rtb == View(rent_to_buy_data)
           rab == View(buy_and_rent_data)
           n == DOMAIN b.month
           buy_initial_expenses == At(b.bond, 0) - slider.deposit
           buy_expenses == [i \in n |-> b.bond_interest_accum[i] + b.expenses_accum[i]]
           buy_income == b.growth_accum
           rent_expenses == r.rent_accum
           rent_income == r.interest_accum
           buy_and_rent_expenses == [i \in n |-> buy_expenses[i] + rab.rent_out_accum[i]]
           buy_and_rent_income ==
               [i \in n |-> buy_income[i] + rab.interest_accum[i] + rab.rent_in_accum[i]]
           buy_nett == [i \in n |-> buy_income[i] - buy_expenses[i] - buy_initial_expenses]
           rent_nett == [i \in n |-> rent_income[i] - rent_expenses[i]]
           buy_and_rent_nett ==
               [i \in n |-> buy_and_rent_income[i] - buy_and_rent_expenses[i]
                                - buy_initial_expenses]
       IN  /\ source' = [buy |-> b,
                         rent |-> r,
                         rent_to_buy |-> rtb,
                         buy_and_rent |-> rab,
                         nett |-> [month |-> b.month, buy_nett |-> buy_nett,
                                   rent_nett |-> rent_nett,
                                   buy_and_rent_nett |-> buy_and_rent_nett]]
           /\ div' = [buy |-> <<"Buy  ROI: ", monthly_roi(b.nett, b.month)>>,
                      rent |-> <<"Rent ROI: ", monthly_roi(r.savings, r.month)>>,
                      r2b |-> <<"R2B  ROI: ", monthly_roi(rtb.nett, rtb.month)>>,
                      rab |-> <<"RAB  ROI: ", monthly_roi(rab.nett, rab.month)>>]
    /\ pc' = "idle"
    /\ heap' = <<>>
    /\ buy_data' = None
    /\ rent_data' = None
    /\ rent_to_buy_data' = None
    /\ buy_and_rent_data' = None
    /\ r2b' = None
    /\ UNCHANGED <<slider, duty_vars>>

Next ==
    \/ \E w \in DOMAIN SliderValues : \E v \in SliderValues[w] : on_change(w, v)
    \/ update_buy
    \/ update_rent
    \/ rent_to_buy_enter
    \/ rent_to_buy_index_error
    \/ search_step
    \/ rent_to_buy_return
    \/ update_buy_and_rent
    \/ update_publish

Spec == Init /\ [][Next]_vars

(***************************************************************************)
(* calc_transfer_duty called directly, on prices around its breakpoints    *)
(***************************************************************************)
DutyWindow == 10

Breakpoints == <<1000000, 1375000, 1925000, 2475000, 11000000>>

DutyPrices ==
    UNION {(Breakpoints[i] - DutyWindow)..(Breakpoints[i] + DutyWindow) :
               i \in DOMAIN Breakpoints}

calc_transfer_duty_call(p) ==
    /\ purchase_price' = p
    /\ duty' = calc_transfer_duty(p)
    /\ UNCHANGED engine_vars

NextDuty == \E p \in DutyPrices : calc_transfer_duty_call(p)

SpecDuty == Init /\ [][NextDuty]_vars

(***************************************************************************)
(* Properties                                                              *)
(***************************************************************************)
Months(a) == 0..(Len(a) - 1)

HasLength(d, fields, n) == \A f \in fields : Len(d[f]) = n

BuyFields == {"month", "housevalue", "growth_accum", "expenses", "expenses_accum",
              "bond", "bond_interest", "bond_interest_accum", "bond_outstanding",
              "nett"}

\* C1: calc_transfer_duty is continuous at every breakpoint.  At a breakpoint
\* the duty is the listed one (0, 11250, 44250, 88250, 1026000), and one rand
\* further, where the next bracket's formula applies, the duty is at most one
\* rand higher and never lower: the next bracket starts from the value the
\* bracket below ends with.
DutyAtBreakpoint == <<0, 11250, 44250, 88250, 1026000>>

C1_DutyContinuous ==
    [][/\ \A i \in DOMAIN Breakpoints :
              purchase_price' = Breakpoints[i] => duty' = DutyAtBreakpoint[i]
       /\ purchase_price' = purchase_price + 1 => duty' - duty \in {0, 1}]_vars

\* the duty just above the last breakpoint has been computed
C1_Witness == purchase_price = 11000001 /\ duty = 1026000

\* what C2 says of one call buy(price, deposit, ..., period, growth, ...) that
\* returned the bundle b
BuyShape(b, price, deposit, period, growth) ==
    /\ HasLength(b, BuyFields, period)
    /\ At(b.housevalue, 0) = price
    /\ At(b.bond_outstanding, 0) = price - deposit
    /\ growth = 0 => \A m \in 0..(period - 1) : At(b.housevalue, m) = price

\* C2: every series returned by buy has length period, housevalue[0] = price,
\* bond_outstanding[0] = price - deposit, and with growth = 0 the house value
\* stays at price in every month.  Checked for the call of update_data and
\* for the call of rent_to_buy.
C2_BuyShape ==
    /\ buy_data # None =>
           BuyShape(View(buy_data), slider.houseprice, slider.deposit, slider.period,
                    slider.growth)
    /\ rent_to_buy_data # None =>
           BuyShape(View(rent_to_buy_data), r2b.price, r2b.deposit, r2b.period,
                    slider.growth)

\* buy has returned for a deposit above 0 and growth 0, over more than a year
C2_Witness ==
    /\ buy_data # None
    /\ slider.growth = 0
    /\ slider.deposit > 0
    /\ slider.period > 12
    /\ At(View(buy_data).housevalue, 12) = slider.houseprice

\* C3: in the series returned by rent, the rent of a month that is not a
\* multiple of 12 is the rent of the month before, and the rent of a month
\* that is a multiple of 12 is the rent of the month before times
\* (1 + rent_increase).
C3_RentSteps ==
    rent_data # None =>
        LET a == View(rent_data).rent
        IN  \A m \in Months(a) \ {0} :
                IF m % 12 = 0
                THEN At(a, m) = (At(a, m - 1) * (Scale + slider.rent_increase)) \div Scale
                ELSE At(a, m) = At(a, m - 1)

\* rent has returned a series that includes month 12, where the rent rose
C3_Witness ==
    /\ rent_data # None
    /\ Len(View(rent_data).rent) > 12
    /\ At(View(rent_data).rent, 12) > At(View(rent_data).rent, 11)

\* C4: for a delay below the number of months of buy_data, the bundle
\* returned by rent_to_buy has month[i] = delay + i for every i (so
\* month[0] = delay) and every series has as many entries as buy_data has
\* months, less delay.
C4_RentToBuyMonths ==
    rent_to_buy_data # None =>
        LET d == View(rent_to_buy_data)
            originalPeriod == Len(View(buy_data).month)
        IN  /\ slider.buy_delay < originalPeriod
            /\ HasLength(d, BuyFields, originalPeriod - slider.buy_delay)
            /\ At(d.month, 0) = slider.buy_delay
            /\ \A i \in Months(d.month) : At(d.month, i) = slider.buy_delay + i

\* rent_to_buy has returned for a delay of 3 months
C4_Witness ==
    /\ rent_to_buy_data # None
    /\ slider.buy_delay = 3
    /\ Len(View(rent_to_buy_data).month) > 1
    /\ At(View(rent_to_buy_data).month, 1) = 4

\* the deposit the search of rent_to_buy ends with, told without running it:
\* 1000 * k for the least k at which the loop test fails, the test after pass
\* k using the duty and the cost computed in pass k, for the deposit before
SearchStops(price, savings, k) ==
    IF k = 0 THEN ~ (0 < savings)
    ELSE ~ (1000 * k + calc_transfer_duty(price - 1000 * (k - 1))
                     + calc_bond_cost(price - 1000 * (k - 1)) < savings)

IsSearchResult(price, savings, deposit) ==
    /\ deposit >= 0
    /\ deposit % 1000 = 0
    /\ SearchStops(price, savings, deposit \div 1000)
    /\ \A k \in 0..(deposit \div 1000 - 1) : ~ SearchStops(price, savings, k)

\* the bundle buy returns, months shifted by delay
ShiftedBuy(price, deposit, period, delay) ==
    LET b == buy(price, deposit, slider.interest, period, slider.growth,
                 At(View(buy_data).expenses, delay), slider.inflation)
    IN  [b EXCEPT !.month = [i \in DOMAIN @ |-> @[i] + delay]]

\* C5: a projector called again with the inputs it was called with returns
\* the series it returned the first time, because no call changes a bundle it
\* was given and none keeps state.  In every state of update_data, each
\* bundle that has been returned still holds exactly what the projector that
\* returned it computes from the sliders and from the bundles it was given,
\* as they are now.  (The passes of the deposit search are left out: they
\* assign to the locals of rent_to_buy only.)
C5_Idempotent ==
    pc # "search" =>
    /\ buy_data # None =>
           View(buy_data) =
               buy(slider.houseprice, slider.deposit, slider.interest, slider.period,
                   slider.growth, expenses_of(slider), slider.inflation)
    /\ rent_data # None =>
           View(rent_data) =
               [month |-> View(buy_data).month]
                   @@ rent(slider.rent, slider.rent_increase, slider.savings_interest,
                           View(buy_data))
    /\ rent_to_buy_data # None =>
           LET delay == slider.buy_delay
               price == At(View(buy_data).housevalue, delay)
               savings == At(View(rent_data).savings, delay)
               d == View(rent_to_buy_data)
               deposit == At(d.housevalue, 0) - At(d.bond_outstanding, 0)
           IN  /\ IsSearchResult(price, savings, deposit)
               /\ d = ShiftedBuy(price, deposit, Len(View(buy_data).month) - delay, delay)
    /\ buy_and_rent_data # None =>
           View(buy_and_rent_data) =
               [month |-> View(buy_data).month]
                   @@ buy_and_rent(View(buy_data), slider.rent, slider.rent_income,
                                   slider.rent_increase, slider.savings_interest,
                                   slider.monthly_investment)

\* all four projectors have returned, rent_to_buy with its months shifted
C5_Witness ==
    /\ pc = "publish"
    /\ At(View(rent_to_buy_data).month, 0) = slider.buy_delay
    /\ At(View(buy_data).month, 0) = 0
    /\ rent_data.month = buy_data.month

\* C6: the deposit rent_to_buy passes to buy is the first d of 0, 1000, 2000,
\* ... with d + transferDuty(price - d) + bondRegistrationCost(price - d)
\* >= savings, duty and cost being those of the deposit d under test.
CostsCover(price, savings, d) ==
    d + calc_transfer_duty(price - d) + calc_bond_cost(price - d) >= savings

C6_FirstCoveringDeposit ==
    rent_to_buy_data # None =>
        /\ r2b.deposit % 1000 = 0
        /\ CostsCover(r2b.price, r2b.savings, r2b.deposit)
        /\ \A k \in 0..(r2b.deposit \div 1000 - 1) :
               ~ CostsCover(r2b.price, r2b.savings, 1000 * k)

\* C7: the deposit search stops once the deposit has reached the price: the
\* deposit handed to buy exceeds the price by less than one step of 1000.
C7_DepositWithinPrice ==
    rent_to_buy_data # None => r2b.deposit < r2b.price + 1000

\* C8: in every series returned by buy, nett[m] = housevalue[m] -
\* bond_outstanding[m] for every month m, month 0 included.
NettIsValueLessBond(b) ==
    \A m \in Months(b.nett) : At(b.nett, m) = At(b.housevalue, m) - At(b.bond_outstanding, m)

C8_BuyNett ==
    /\ buy_data # None => NettIsValueLessBond(View(buy_data))
    /\ rent_to_buy_data # None => NettIsValueLessBond(View(rent_to_buy_data))

\* C9: in the series returned by buy_and_rent, nett[m] = buy_data.nett[m] +
\* savings[m] for every month m, month 0 included.
C9_BuyAndRentNett ==
    buy_and_rent_data # None =>
        LET d == View(buy_and_rent_data)
        IN  \A m \in Months(d.nett) :
                At(d.nett, m) = At(View(buy_data).nett, m) + At(d.savings, m)

\* a[0] + ... + a[m]
RECURSIVE Total(_, _)
Total(a, m) == IF m < 0 THEN 0 ELSE Total(a, m - 1) + At(a, m)

IsRunningTotal(accum, a) == \A m \in Months(a) : At(accum, m) = Total(a, m)

\* C10: every rent accumulator is the running total of its monthly series:
\* rent_accum of rent in the output of rent, rent_in_accum of rent_in and
\* rent_out_accum of rent_out in the output of buy_and_rent, in the months
\* that are multiples of 12 too.
C10_RentAccumulators ==
    /\ rent_data # None =>
           IsRunningTotal(View(rent_data).rent_accum, View(rent_data).rent)
    /\ buy_and_rent_data # None =>
           /\ IsRunningTotal(View(buy_and_rent_data).rent_in_accum,
                             View(buy_and_rent_data).rent_in)
           /\ IsRunningTotal(View(buy_and_rent_data).rent_out_accum,
                             View(buy_and_rent_data).rent_out)

\* the monthly rate that compounds to the yearly rate: (1+annual)^(1/12) - 1
CompoundedMonthlyRate(annual) == root12(Scale + annual) - Scale

\* interest[m] = balance[m-1] * CompoundedMonthlyRate(annual) in every month m >= 1
InterestIsCompounded(interest, balance, annual) ==
    \A m \in Months(interest) \ {0} :
        At(interest, m) = frac(At(balance, m - 1), CompoundedMonthlyRate(annual))

\* C11: every yearly rate is turned into its monthly rate as
\* (1+annual)^(1/12) - 1: the bond interest rate in buy (bond_interest[m] =
\* bond_outstanding[m-1] * monthly rate, and the payment is the amortized
\* payment at that monthly rate), the savings interest rate in rent and in
\* buy_and_rent (interest[m] = savings[m-1] * monthly rate), as the growth
\* rate is (housevalue[m] = housevalue[m-1] * (1+growth)^(1/12)).
C11_MonthlyRates ==
    /\ buy_data # None =>
           LET b == View(buy_data)
           IN  /\ \A m \in Months(b.housevalue) \ {0} :
                      At(b.housevalue, m) =
                          fmul(At(b.housevalue, m - 1), root12(Scale + slider.growth))
               /\ InterestIsCompounded(b.bond_interest, b.bond_outstanding,
                                       slider.interest)
               /\ \A m \in Months(b.bond) \ {0} :
                      At(b.bond, m) =
                          calc_bond_payment(slider.houseprice - slider.deposit,
                                            CompoundedMonthlyRate(slider.interest),
                                            slider.period)
    /\ rent_data # None =>
           InterestIsCompounded(View(rent_data).interest, View(rent_data).savings,
                                slider.savings_interest)
    /\ buy_and_rent_data # None =>
           InterestIsCompounded(View(buy_and_rent_data).interest,
                                View(buy_and_rent_data).savings, slider.savings_interest)

====
